---- MODULE Spec2Model ----
(***************************************************************************)
(* Interview Session Lifecycle Manager of the recruitment portal           *)
(* (src/no_websocket.py): the in-memory session store, the link lock       *)
(* registry, the persistent identity map, the 30-minute timer, the         *)
(* request handlers and the background cleanup thread.                     *)
(*                                                                         *)
(* Time is counted in whole minutes.  Request handlers are `async def`     *)
(* without an await, so the event loop runs each of them to completion     *)
(* before the next one; process_answer is split at its blocking LLM call   *)
(* because the cleanup thread (a real OS thread) keeps running meanwhile.  *)
(* Session records are Python dicts shared by reference: they live in      *)
(* `heap`, and the store, the in-flight answer and the sweeper's work      *)
(* lists hold object ids.                                                  *)
(*                                                                         *)
(* get_remaining_time_minutes rounds to a hundredth of a minute, so two    *)
(* requests less than 0.3 s apart report the same value: instants the      *)
(* clock of the model does not tell apart are such instants, or any that   *)
(* lie less than Step minutes apart.                                       *)
(*                                                                         *)
(* Specifications: Spec (handlers, clock, cleanup thread), SpecFair (Spec  *)
(* with the cleanup thread kept running), SpecOps (handlers, restart and   *)
(* failing writes), SpecSweep (the cleanup thread on two records, with the *)
(* errors a pass can meet), SpecLog (record operations with the violation  *)
(* log), SpecTwo (handlers with two candidates on one link), SpecPure (the *)
(* timer functions and the fingerprint function applied to inputs of their *)
(* own, held in `probe`) and SpecScreen (the MCQ pre-screening API of      *)
(* src/prescreen_api.py, whose state is the record `prescreen`).           *)
(***************************************************************************)
EXTENDS Integers, Sequences, FiniteSets, TLC

\* ---------------------------------------------------------------- bounds
MaxSessions == 1
MaxObj == 2
Step == 15
MaxSmallTicks == 2
NUM_QUESTIONS == 2
MaxMcq == 2

\* ------------------------------------------------------ program constants
SESSION_EXPIRY_HOURS == 24
INTERVIEW_TIME_LIMIT_MINUTES == 30

\* A jump of 25 hours: lets a record outlive SESSION_EXPIRY_HOURS and lands
\* on minute 0 of an hour when taken at minute 0.
DayJump == 60 * (SESSION_EXPIRY_HOURS + 1)

Emails == {"a@x.com"}
Links == {"L1"}
NoLink == "none"
Fingerprints == {"F1", "F2"}
\* uuid4 values: one more than the identities the map may hold, so that an
\* identity whose mapping was lost can be given a new one
MaxUuid == MaxSessions + 1
SessionIds == 1..MaxUuid
ObjIds == 1..MaxObj
QuestionIds == 1..NUM_QUESTIONS
NoFinal == -1
NoRemaining == -1

\* `reported` and `issued` record what clients were told: the remaining
\* minutes last reported per session id, the session id a fresh start first
\* handed out per user identifier.
VARIABLES now, ticks, persistent_sessions, persistent_file, next_uuid,
          heap, active_sessions, session_keys, l1_link_locks,
          l1_files, security_files, pa, sweeper, resp, reported, issued,
          probe, prescreen

vars == <<now, ticks, persistent_sessions, persistent_file, next_uuid,
          heap, active_sessions, session_keys, l1_link_locks,
          l1_files, security_files, pa, sweeper, resp, reported,
          issued, probe, prescreen>>

\* ------------------------------------------------------- pure functions

\* variant: the fingerprint is part of a link's identifier as well
create_user_identifier_WithFingerprint(email, fp, link) ==
    IF link # NoLink THEN <<"L1", link, email, fp>> ELSE <<"REG", email, fp>>

\* create_user_identifier: link + email for an L1 interview, email +
\* fingerprint for a regular one.
create_user_identifier(email, fp, link) ==
    IF link # NoLink THEN <<"L1", link, email>> ELSE <<"REG", email, fp>>

Max(a, b) == IF a >= b THEN a ELSE b

ElapsedMinutes(session, t) == t - session.interview_timer_started

\* variant: the limit counts as reached only once it has been exceeded
check_interview_timer_exceeded(session, t) ==
    ElapsedMinutes(session, t) > session.time_limit_minutes

\* check_interview_timer
check_interview_timer(session, t) ==
    ElapsedMinutes(session, t) >= session.time_limit_minutes

\* get_remaining_time_minutes
get_remaining_time_minutes(session, t) ==
    Max(0, session.time_limit_minutes - ElapsedMinutes(session, t))

\* calculate_final_score, reduced to the number of answers it scored
calculate_final_score(results) == Len(results)

\* ------------------------------------------------------------- records

FreeRec == [session_id |-> 0, created_at |-> 0, browser_fingerprint |-> "",
            email |-> "", l1_session_id |-> NoLink, status |-> "free",
            interview_timer_started |-> 0, time_limit_minutes |-> 0,
            current_question_num |-> 0, has_question |-> FALSE,
            total_questions |-> 0, results |-> <<>>, violations |-> 0,
            end_reason |-> "", final_results |-> NoFinal]

\* the session_data dict built by start_interview
NewSession(sid, email, fp, link, t) ==
    [session_id |-> sid, created_at |-> t, browser_fingerprint |-> fp,
     email |-> email, l1_session_id |-> link, status |-> "active",
     interview_timer_started |-> t,
     time_limit_minutes |-> INTERVIEW_TIME_LIMIT_MINUTES,
     current_question_num |-> 0, has_question |-> FALSE,
     total_questions |-> NUM_QUESTIONS, results |-> <<>>, violations |-> 0,
     end_reason |-> "", final_results |-> NoFinal]

NoResp == [op |-> "none", code |-> 0, sid |-> 0, status |-> "",
           remaining |-> NoRemaining, results_count |-> -1,
           request |-> <<>>, again |-> FALSE, prev_sid |-> 0]

\* what a handler returns: the HTTP status code and, for a success, the
\* session id, status, remaining_time_minutes and results_count it carries
Response(op, code, sid, status, remaining, results_count) ==
    [NoResp EXCEPT !.op = op, !.code = code, !.sid = sid, !.status = status,
                   !.remaining = remaining, !.results_count = results_count]

\* variant: the handler answers 200 with an empty body instead of raising
Failure_AsEmptySuccess(op, code) == Response(op, 200, 0, "", NoRemaining, -1)

\* raise HTTPException(status_code = code)
Failure(op, code) == Response(op, code, 0, "", NoRemaining, -1)

PaIdle == [pc |-> "idle", obj |-> 0, sid |-> 0, question_id |-> 0, began |-> 0]
\* the cleanup thread between passes; `ran` tells that it completed a pass
\* since the clock last advanced
SweeperAsleep == [pc |-> "sleep", current_time |-> 0, expired |-> <<>>,
                  ran |-> TRUE]

\* ------------------------------------------------- dict and heap helpers

Put(f, k, v) == [x \in (DOMAIN f) \cup {k} |-> IF x = k THEN v ELSE f[x]]
\* variant: the entry stays
Del_Nothing(f, k) == f
\* del d[k] / d.pop(k, None)
Del(f, k) == [x \in (DOMAIN f) \ {k} |-> f[x]]
Range(s) == {s[i] : i \in DOMAIN s}
Without(s, k) == SelectSeq(s, LAMBDA x : x # k)

\* objects some reference can still reach
Live(store, inflight, sw) ==
    {store[s] : s \in DOMAIN store}
      \cup (IF inflight.pc = "idle" THEN {} ELSE {inflight.obj})
      \cup (IF sw.pc = "ending" THEN Range(sw.expired) ELSE {})

\* unreachable dicts are garbage
Collect(h, store, inflight, sw) ==
    [o \in ObjIds |-> IF o \in Live(store, inflight, sw) THEN h[o] ELSE FreeRec]


Session(sid) == heap[active_sessions[sid]]

EmptyMap == [x \in {} |-> 0]

\* ------------------------------------------------------------------ Init
\* State after import and startup_event: empty store and registry, the
\* identity map loaded from an absent file, the cleanup thread asleep.
\* The L1 question files of the distributed links exist.
\* the state of the server process when it has started
InitState ==
    /\ now = 0
    /\ ticks = 0
    /\ persistent_sessions = EmptyMap
    /\ persistent_file = EmptyMap
    /\ next_uuid = 1
    /\ heap = [o \in ObjIds |-> FreeRec]
    /\ active_sessions = EmptyMap
    /\ session_keys = <<>>
    /\ l1_link_locks = EmptyMap
    /\ l1_files = Links
    /\ security_files = {}
    /\ pa = PaIdle
    /\ sweeper = [SweeperAsleep EXCEPT !.ran = FALSE]
    /\ resp = NoResp
    /\ reported = [s \in SessionIds |-> NoRemaining]
    /\ issued = EmptyMap

\* no pure function is being looked at on its own
NoProbe == [fn |-> "none"]

\* the pre-screening API (src/prescreen_api.py) before any request: no
\* question set in memory, no file in candidate_responses,
\* scheduled_assessments or link_security
NoFingerprintFile == "none"
NoPrescreen ==
    [active_sessions |-> {},
     session_files |-> {},
     scheduled_assessments |-> [s \in 1..MaxMcq |-> "none"],
     link_security |-> [s \in 1..MaxMcq |-> NoFingerprintFile],
     uuid |-> 0,
     interview_tests |-> {},
     resp |-> [op |-> "none", sid |-> 0, fingerprint |-> "", code |-> 0]]

Init == InitState /\ probe = NoProbe /\ prescreen = NoPrescreen

\* ----------------------------------------------------------------- clock
\* Wall-clock time advances by Step minutes.  The cleanup thread sleeps 30
\* seconds between passes, so it has completed a pass since the clock last
\* advanced and is asleep again.  The LLM call a process_answer request waits
\* on returns within minutes, so a request in flight sees the clock advance
\* at most once.
Tick ==
    /\ ticks < MaxSmallTicks
    /\ pa.pc = "eval" => pa.began = now
    /\ sweeper.pc = "sleep"
    /\ sweeper.ran
    /\ now' = now + Step
    /\ ticks' = ticks + 1
    /\ sweeper' = [sweeper EXCEPT !.ran = FALSE]
    /\ resp' = NoResp
    /\ UNCHANGED <<persistent_sessions, persistent_file, next_uuid, heap,
                   active_sessions, session_keys, l1_link_locks, l1_files,
                   security_files, pa, reported,
                   issued, probe, prescreen>>

\* More than a day goes by while no request and no sweep pass is running
\* (the LLM call of process_answer times out after minutes).
TickDay ==
    /\ now < DayJump
    /\ pa.pc = "idle"
    /\ sweeper.pc = "sleep"
    /\ sweeper.ran
    /\ now' = now + DayJump
    /\ sweeper' = [sweeper EXCEPT !.ran = FALSE]
    /\ resp' = NoResp
    /\ UNCHANGED <<ticks, persistent_sessions, persistent_file, next_uuid,
                   heap, active_sessions, session_keys, l1_link_locks,
                   l1_files, security_files, pa, reported,
                   issued, probe, prescreen>>

\* ------------------------------------------------------- start_interview

\* variant: a record counts as in progress from its first question on
HasProgress_FromFirstQuestion(session) == session.current_question_num >= 1

\* variant: a record counts as in progress only past its second question
HasProgress_PastSecondQuestion(session) == session.current_question_num > 2

\* the resumption loops' test: the record has moved past its first question
HasProgress(session) == session.current_question_num > 1

\* the resumption loops of start_interview: the first record, in dict
\* order, of the same link (L1) or the same email (regular) that is active,
\* owned by this browser and has progress; 0 when there is none
FindResumable(email, link, fp) ==
    LET Match(session) ==
            /\ IF link # NoLink
                 THEN session.l1_session_id = link
                 ELSE session.email = email /\ session.l1_session_id = NoLink
            /\ session.status = "active"
            /\ session.browser_fingerprint = fp
            /\ HasProgress(session)
        idx == {i \in DOMAIN session_keys : Match(Session(session_keys[i]))}
    IN  IF idx = {} THEN 0
        ELSE session_keys[CHOOSE i \in idx : \A j \in idx : i <= j]

\* the rule that an L1 link bound to another browser refuses a fresh start
LinkLockedElsewhere(link, fp) ==
    /\ link # NoLink
    /\ link \in DOMAIN l1_link_locks
    /\ l1_link_locks[link] # fp

\* variant: every call draws a new id
get_or_create_persistent_session_id_AlwaysNew(uid) == next_uuid

\* get_or_create_persistent_session_id: the id the identity map holds for
\* the user identifier, else a new uuid4 (next_uuid: never drawn before)
get_or_create_persistent_session_id(uid) ==
    IF uid \in DOMAIN persistent_sessions
      THEN persistent_sessions[uid] ELSE next_uuid

\* the response of start_interview; `again` marks a request that repeats
\* the request answered just before it with a fresh start
StartResponse(code, sid, status, remaining, email, link, fp) ==
    LET again == /\ resp.op = "start" /\ resp.code = 200
                 /\ resp.status = "started"
                 /\ resp.request = <<email, link, fp>>
    IN  [Response("start", code, sid, status, remaining, -1)
            EXCEPT !.request = IF code = 200 /\ status = "started"
                                 THEN <<email, link, fp>> ELSE <<>>,
                   !.again = again,
                   !.prev_sid = IF again THEN resp.sid ELSE 0]

\* the starts a run goes into: those of an identity the map knows, and
\* those that draw a new id while the map holds fewer than cap identities
WithinBounds(email, link, fp, cap) ==
    \/ create_user_identifier(email, fp, link) \in DOMAIN persistent_sessions
    \/ /\ Cardinality(DOMAIN persistent_sessions) < cap
       /\ next_uuid <= MaxUuid

StartInterview(email, link, fp, save_ok, loaded, first) ==
    /\ pa.pc = "idle"
    /\ LET uid == create_user_identifier(email, fp, link)
           known == uid \in DOMAIN persistent_sessions
           sid == get_or_create_persistent_session_id(uid)
           existing == FindResumable(email, link, fp)
           free == ObjIds \ Live(Del(active_sessions, sid), pa, sweeper)
           obj == CHOOSE o \in free : \A p \in free : o <= p
           fresh == NewSession(sid, email, fp, link, now)
           session_data == IF first
                             THEN [fresh EXCEPT !.has_question = TRUE,
                                                !.current_question_num = 1]
                             ELSE fresh
       IN
       \* get_or_create_persistent_session_id
       /\ persistent_sessions' =
             IF known THEN persistent_sessions
             ELSE Put(persistent_sessions, uid, sid)
       /\ persistent_file' =
             IF known \/ ~save_ok THEN persistent_file
             ELSE persistent_sessions'
       /\ next_uuid' = IF known THEN next_uuid ELSE next_uuid + 1
       /\ IF existing # 0 THEN
             LET remaining == get_remaining_time_minutes(Session(existing), now)
             IN  /\ resp' = StartResponse(200, existing, "resumed", remaining,
                                          email, link, fp)
                 /\ reported' = [reported EXCEPT ![existing] = remaining]
                 /\ UNCHANGED <<heap, active_sessions, session_keys,
                                issued>>
          ELSE IF LinkLockedElsewhere(link, fp) THEN
             /\ resp' = StartResponse(403, 0, "", NoRemaining, email, link, fp)
             /\ UNCHANGED <<heap, active_sessions, session_keys, reported,
                            issued>>
          ELSE IF link # NoLink /\ link \notin l1_files THEN
             /\ resp' = StartResponse(404, 0, "", NoRemaining, email, link, fp)
             /\ UNCHANGED <<heap, active_sessions, session_keys, reported,
                            issued>>
          ELSE IF link = NoLink /\ ~loaded THEN
             /\ resp' = StartResponse(500, 0, "", NoRemaining, email, link, fp)
             /\ UNCHANGED <<heap, active_sessions, session_keys, reported,
                            issued>>
          ELSE
             /\ free # {}
             /\ active_sessions' = Put(active_sessions, sid, obj)
             /\ session_keys' = IF sid \in DOMAIN active_sessions
                                  THEN session_keys
                                  ELSE Append(session_keys, sid)
             /\ heap' = Collect([heap EXCEPT ![obj] = session_data],
                                active_sessions', pa, sweeper)
             /\ resp' = StartResponse(200, sid, "started",
                                      INTERVIEW_TIME_LIMIT_MINUTES,
                                      email, link, fp)
             /\ reported' = [reported EXCEPT
                               ![sid] = INTERVIEW_TIME_LIMIT_MINUTES]
             /\ issued' = IF uid \in DOMAIN issued THEN issued
                          ELSE Put(issued, uid, sid)
    /\ UNCHANGED <<now, ticks, l1_link_locks, l1_files, security_files,
                   pa, sweeper, probe, prescreen>>

\* variant: the browser check gives way to the timer check once the time
\* budget is used up
LockedToOtherBrowser_UntilTimeout(session, fp) ==
    session.browser_fingerprint # fp /\ ~check_interview_timer(session, now)

\* the browser verification of process_answer, end_interview and
\* get_interview_status: the request's fingerprint is not the record's
LockedToOtherBrowser(session, fp) == session.browser_fingerprint # fp

\* ---------------------------------------------- get_l1_interview_session
\* The link lock registry's claim: first access binds the link to the
\* browser, another browser is refused.  A link without a question file
\* loses its lock again (the security file stays).
GetL1InterviewSession(link, fp) ==
    /\ pa.pc = "idle"
    /\ IF link \in DOMAIN l1_link_locks /\ l1_link_locks[link] # fp THEN
          /\ resp' = Failure("open", 403)
          /\ UNCHANGED <<l1_link_locks, security_files>>
       ELSE
          /\ security_files' = IF link \in DOMAIN l1_link_locks
                                 THEN security_files
                                 ELSE security_files \cup {link}
          /\ IF link \notin l1_files THEN
                /\ l1_link_locks' = Del(l1_link_locks, link)
                /\ resp' = Failure("open", 404)
             ELSE
                /\ l1_link_locks' = Put(l1_link_locks, link, fp)
                /\ resp' = Response("open", 200, 0, "", NoRemaining, -1)
    /\ UNCHANGED <<now, ticks, persistent_sessions, persistent_file,
                   next_uuid, heap, active_sessions, session_keys, l1_files,
                   pa, sweeper, reported,
                   issued, probe, prescreen>>

\* -------------------------------------------------------- process_answer

\* the timer-expiry branch shared by the request handlers
\* variant: the timer branch writes status active
MarkTimeExpired_KeepsActive(session) ==
    [session EXCEPT !.status = "active", !.end_reason = "time_expired"]

MarkTimeExpired(session) ==
    [session EXCEPT !.status = "completed", !.end_reason = "time_expired"]

\* process_answer up to the blocking call of analyze_response_llm
ProcessAnswerBegin(sid, fp, question_id) ==
    /\ pa.pc = "idle"
    /\ IF sid \notin DOMAIN active_sessions THEN
          /\ resp' = Failure("answer", 404)
          /\ UNCHANGED <<heap, pa>>
       ELSE IF LockedToOtherBrowser(Session(sid), fp) THEN
          /\ resp' = Failure("answer", 403)
          /\ UNCHANGED <<heap, pa>>
       ELSE IF check_interview_timer(Session(sid), now) THEN
          /\ heap' = [heap EXCEPT ![active_sessions[sid]] = MarkTimeExpired(@)]
          /\ resp' = Failure("answer", 410)
          /\ UNCHANGED pa
       ELSE IF Session(sid).status = "completed" THEN
          /\ resp' = Failure("answer", 400)
          /\ UNCHANGED <<heap, pa>>
       ELSE IF ~Session(sid).has_question THEN
          /\ resp' = Failure("answer", 400)
          /\ UNCHANGED <<heap, pa>>
       ELSE
          /\ pa' = [pc |-> "eval", obj |-> active_sessions[sid], sid |-> sid,
                    question_id |-> question_id, began |-> now]
          /\ resp' = NoResp
          /\ UNCHANGED heap
    /\ UNCHANGED <<now, ticks, persistent_sessions, persistent_file,
                   next_uuid, active_sessions, session_keys, l1_link_locks,
                   l1_files, security_files, sweeper, reported,
                   issued, probe, prescreen>>

\* variant: the result is numbered by the question id the request names
AnswerResult_FromRequest(session, question_id) == question_id

\* the result dict appended by process_answer, reduced to its question_id
AnswerResult(session, question_id) == session.current_question_num

\* variant: the interview goes on until more results than total_questions
\* are recorded
InterviewComplete_OneLate(session) ==
    Len(session.results) > session.total_questions

\* questions_answered >= session["total_questions"]
InterviewComplete(session) ==
    Len(session.results) >= session.total_questions

\* process_answer from the evaluation on: append the result, then finish
\* the interview or move to the next question.  `next` says whether
\* choose_next_question (or the fallback scan) finds a question.
ProcessAnswerFinish(next) ==
    /\ pa.pc = "eval"
    /\ LET session == heap[pa.obj]
           link == session.l1_session_id
           appended == [session EXCEPT
                          !.results = Append(@, AnswerResult(session, pa.question_id))]
           done == InterviewComplete(appended)
           after == IF done THEN
                       [appended EXCEPT
                          !.status = "completed",
                          !.final_results = calculate_final_score(appended.results)]
                    ELSE IF next THEN
                       [appended EXCEPT !.has_question = TRUE,
                                        !.current_question_num = @ + 1]
                    ELSE [appended EXCEPT !.status = "completed"]
           cleanup == (done \/ ~next) /\ link # NoLink
       IN
       /\ heap' = Collect([heap EXCEPT ![pa.obj] = after],
                          active_sessions, PaIdle, sweeper)
       /\ l1_files' = IF cleanup THEN l1_files \ {link} ELSE l1_files
       /\ l1_link_locks' = IF cleanup THEN Del(l1_link_locks, link)
                           ELSE l1_link_locks
       /\ security_files' = IF cleanup THEN security_files \ {link}
                            ELSE security_files
       /\ resp' = Response("answer", 200, pa.sid,
                           IF done \/ ~next THEN "interview_complete"
                           ELSE "question_processed",
                           NoRemaining, Len(after.results))
    /\ pa' = PaIdle
    /\ UNCHANGED <<now, ticks, persistent_sessions, persistent_file,
                   next_uuid, active_sessions, session_keys, sweeper, reported,
                   issued, probe, prescreen>>

\* ---------------------------------------------------------- end_interview
EndInterview(sid, fp) ==
    /\ pa.pc = "idle"
    /\ IF sid \notin DOMAIN active_sessions THEN
          /\ resp' = Failure("end", 404)
          /\ UNCHANGED <<heap, active_sessions, session_keys, l1_link_locks,
                         l1_files, security_files>>
       ELSE IF LockedToOtherBrowser(Session(sid), fp) THEN
          /\ resp' = Failure("end", 403)
          /\ UNCHANGED <<heap, active_sessions, session_keys, l1_link_locks,
                         l1_files, security_files>>
       ELSE
          LET session == Session(sid)
              link == session.l1_session_id
              ended == [session EXCEPT
                          !.status = "completed",
                          !.final_results = calculate_final_score(session.results)]
          IN  /\ active_sessions' = Del(active_sessions, sid)
              /\ session_keys' = Without(session_keys, sid)
              /\ heap' = Collect([heap EXCEPT ![active_sessions[sid]] = ended],
                                 active_sessions', pa, sweeper)
              /\ l1_files' = l1_files \ {link}
              /\ l1_link_locks' = Del(l1_link_locks, link)
              /\ security_files' = security_files \ {link}
              /\ resp' = Response("end", 200, sid, "completed", NoRemaining,
                                  Len(session.results))
    /\ UNCHANGED <<now, ticks, persistent_sessions, persistent_file,
                   next_uuid, pa, sweeper, reported,
                   issued, probe, prescreen>>

\* --------------------------------------------------- get_interview_status
GetInterviewStatus(sid, fp) ==
    /\ pa.pc = "idle"
    /\ IF sid \notin DOMAIN active_sessions THEN
          /\ resp' = Failure("status", 404)
          /\ UNCHANGED <<heap, reported>>
       ELSE IF LockedToOtherBrowser(Session(sid), fp) THEN
          /\ resp' = Failure("status", 403)
          /\ UNCHANGED <<heap, reported>>
       ELSE IF check_interview_timer(Session(sid), now) THEN
          /\ heap' = [heap EXCEPT ![active_sessions[sid]] = MarkTimeExpired(@)]
          /\ resp' = Failure("status", 410)
          /\ UNCHANGED reported
       ELSE
          LET remaining == get_remaining_time_minutes(Session(sid), now)
          IN  /\ resp' = Response("status", 200, sid, Session(sid).status,
                                  remaining, Len(Session(sid).results))
              /\ reported' = [reported EXCEPT ![sid] = remaining]
              /\ UNCHANGED heap
    /\ UNCHANGED <<now, ticks, persistent_sessions, persistent_file,
                   next_uuid, active_sessions, session_keys, l1_link_locks,
                   l1_files, security_files, pa, sweeper,
                   issued, probe, prescreen>>

\* ------------------------------------------------------ cleanup thread
\* One pass of cleanup_expired_sessions after its sleep: current_time is
\* taken, auto_end_expired_interviews collects the active records whose
\* timer has run out (in dict order, as references to the dicts).
SweepScan ==
    /\ sweeper.pc = "sleep"
    /\ LET due(i) == LET session == Session(session_keys[i])
                     IN  /\ session.status = "active"
                         /\ check_interview_timer(session, now)
           objs == [i \in DOMAIN session_keys |-> active_sessions[session_keys[i]]]
           idx == SelectSeq([i \in DOMAIN session_keys |-> i], due)
       IN  sweeper' = [pc |-> "ending", current_time |-> now,
                       expired |-> [k \in DOMAIN idx |-> objs[idx[k]]],
                       ran |-> sweeper.ran]
    /\ resp' = NoResp
    /\ UNCHANGED <<now, ticks, persistent_sessions, persistent_file,
                   next_uuid, heap, active_sessions, session_keys,
                   l1_link_locks, l1_files, security_files, pa, reported,
                   issued, probe, prescreen>>

\* auto_end_expired_interviews, one collected record: mark it completed,
\* compute the final results of what was answered, drop the L1 question
\* file, the link lock and the security file.  The store entry stays.
SweepAutoEnd ==
    /\ sweeper.pc = "ending"
    /\ sweeper.expired # <<>>
    /\ LET obj == Head(sweeper.expired)
           session == heap[obj]
           link == session.l1_session_id
           ended == [MarkTimeExpired(session) EXCEPT
                       !.final_results = calculate_final_score(session.results)]
       IN  /\ sweeper' = [sweeper EXCEPT !.expired = Tail(@)]
           /\ heap' = Collect([heap EXCEPT ![obj] = ended],
                              active_sessions, pa, sweeper')
           /\ l1_files' = l1_files \ {link}
           /\ l1_link_locks' = Del(l1_link_locks, link)
           /\ security_files' = security_files \ {link}
    /\ resp' = NoResp
    /\ UNCHANGED <<now, ticks, persistent_sessions, persistent_file,
                   next_uuid, active_sessions, session_keys, pa, reported,
                   issued, probe, prescreen>>

MaxAgeMinutes == SESSION_EXPIRY_HOURS * 60

\* After the timer sweep: at minute 0 of the hour the pass goes on to
\* collect the ids of the records older than SESSION_EXPIRY_HOURS,
\* otherwise it goes back to sleep.
SweepMaxAgeScan ==
    /\ sweeper.pc = "ending"
    /\ sweeper.expired = <<>>
    /\ LET old(sid) == sweeper.current_time - Session(sid).created_at > MaxAgeMinutes
           ids == SelectSeq(session_keys, old)
       IN  sweeper' = IF sweeper.current_time % 60 < 1 /\ ids # <<>>
                        THEN [sweeper EXCEPT !.pc = "maxage", !.expired = ids]
                        ELSE SweeperAsleep
    /\ resp' = NoResp
    /\ UNCHANGED <<now, ticks, persistent_sessions, persistent_file,
                   next_uuid, heap, active_sessions, session_keys,
                   l1_link_locks, l1_files, security_files, pa, reported,
                   issued, probe, prescreen>>

\* The max-age cleanup of one collected id: pop whatever record the store
\* holds under it, delete its L1 question file and release its link lock.
SweepMaxAgePop ==
    /\ sweeper.pc = "maxage"
    /\ LET sid == Head(sweeper.expired)
           rest == Tail(sweeper.expired)
           present == sid \in DOMAIN active_sessions
           link == IF present THEN Session(sid).l1_session_id ELSE NoLink
       IN  /\ sweeper' = IF rest = <<>> THEN SweeperAsleep
                         ELSE [sweeper EXCEPT !.expired = rest]
           /\ active_sessions' = Del(active_sessions, sid)
           /\ session_keys' = Without(session_keys, sid)
           /\ heap' = Collect(heap, active_sessions', pa, sweeper')
           /\ l1_files' = l1_files \ {link}
           /\ l1_link_locks' = Del(l1_link_locks, link)
    /\ resp' = NoResp
    /\ UNCHANGED <<now, ticks, persistent_sessions, persistent_file,
                   next_uuid, security_files, pa, reported,
                   issued, probe, prescreen>>

\* reset_link_lock (debug endpoint, no browser verification): drops the
\* link's lock entry and its security file
ResetLinkLock(link) ==
    /\ pa.pc = "idle"
    /\ l1_link_locks' = Del(l1_link_locks, link)
    /\ security_files' = security_files \ {link}
    /\ resp' = Response("reset", 200, 0, "success", NoRemaining, -1)
    /\ UNCHANGED <<now, ticks, persistent_sessions, persistent_file,
                   next_uuid, heap, active_sessions, session_keys, l1_files,
                   pa, sweeper, reported,
                   issued, probe, prescreen>>

\* --------------------------------------------------------------- restart
\* The process stops (crash, redeploy, uvicorn reload) and is started
\* again: the store, the lock registry, the request in flight and the
\* cleanup thread's pass are gone, load_persistent_sessions reads the
\* identity map back from its file, the files on disk stay.
Restart ==
    /\ active_sessions # EmptyMap \/ persistent_sessions # persistent_file
    /\ persistent_sessions' = persistent_file
    /\ active_sessions' = EmptyMap
    /\ session_keys' = <<>>
    /\ l1_link_locks' = EmptyMap
    /\ heap' = [o \in ObjIds |-> FreeRec]
    /\ pa' = PaIdle
    /\ sweeper' = [SweeperAsleep EXCEPT !.ran = FALSE]
    /\ resp' = NoResp
    /\ UNCHANGED <<now, ticks, persistent_file, next_uuid, l1_files,
                   security_files, reported,
                   issued, probe, prescreen>>

\* the session ids a client can send: those handed out so far (or the first)
RequestIds == 1..Max(1, next_uuid - 1)

\* ------------------------------------------------------------------ Next
Next ==
    \/ Tick
    \/ TickDay
    \/ \E email \in Emails, link \in Links \cup {NoLink}, fp \in Fingerprints,
          save_ok \in {TRUE}, loaded \in BOOLEAN, first \in BOOLEAN :
          /\ WithinBounds(email, link, fp, MaxSessions)
          /\ StartInterview(email, link, fp, save_ok, loaded, first)
    \/ \E link \in Links, fp \in Fingerprints : GetL1InterviewSession(link, fp)
    \/ \E sid \in RequestIds, fp \in Fingerprints, q \in QuestionIds :
          ProcessAnswerBegin(sid, fp, q)
    \/ \E next \in BOOLEAN : ProcessAnswerFinish(next)
    \/ \E sid \in RequestIds, fp \in Fingerprints : EndInterview(sid, fp)
    \/ \E sid \in RequestIds, fp \in Fingerprints : GetInterviewStatus(sid, fp)
    \/ SweepScan
    \/ SweepAutoEnd
    \/ SweepMaxAgeScan
    \/ SweepMaxAgePop

Spec == Init /\ [][Next]_vars

\* The request handlers together with the events Next leaves out: a failing
\* write of the identity map file, a restart of the process and the debug
\* lock reset, in the time between two passes of the cleanup thread.
NextOps ==
    \/ \E email \in Emails, link \in Links \cup {NoLink}, fp \in Fingerprints,
          save_ok \in BOOLEAN, loaded \in BOOLEAN, first \in BOOLEAN :
          /\ WithinBounds(email, link, fp, MaxSessions)
          /\ StartInterview(email, link, fp, save_ok, loaded, first)
    \/ \E link \in Links, fp \in Fingerprints : GetL1InterviewSession(link, fp)
    \/ \E sid \in RequestIds, fp \in Fingerprints, q \in QuestionIds :
          ProcessAnswerBegin(sid, fp, q)
    \/ \E next \in BOOLEAN : ProcessAnswerFinish(next)
    \/ \E sid \in RequestIds, fp \in Fingerprints : EndInterview(sid, fp)
    \/ \E sid \in RequestIds, fp \in Fingerprints : GetInterviewStatus(sid, fp)
    \/ Restart
    \/ \E link \in Links : ResetLinkLock(link)

SpecOps == Init /\ [][NextOps]_vars

TypeOK ==
    /\ now \in Nat
    /\ DOMAIN active_sessions \subseteq SessionIds
    /\ \A s \in DOMAIN active_sessions : heap[active_sessions[s]].session_id = s
    /\ Range(session_keys) = DOMAIN active_sessions
    /\ Len(session_keys) = Cardinality(DOMAIN active_sessions)

\* ================================================================ claims

\* a step in which start_interview stored a brand-new record
FreshStart == resp.op = "start" /\ resp.code = 200 /\ resp.status = "started"

\* the dict in heap slot o is the same Python object after the step
SameObject(o) ==
    /\ heap[o].status # "free"
    /\ heap'[o].status # "free"
    /\ ~(FreshStart' /\ active_sessions'[resp'.sid] = o)

\* C1: for one candidate identity the remaining minutes reported by
\* successive startSession and getStatus responses never increase.
C1_RemainingNeverIncreases ==
    [][\A s \in SessionIds :
          reported[s] # NoRemaining => reported'[s] <= reported[s]]_vars

\* C2: while the link-scoped session started by one fingerprint is in the
\* store, a startSession for its link and a submitAnswer on it from another
\* fingerprint are answered 403 and leave the session where it is.
C2_OtherBrowserRejected ==
    [][\A sid \in DOMAIN active_sessions, f \in Fingerprints :
          (/\ Session(sid).l1_session_id # NoLink
           /\ Session(sid).browser_fingerprint # f)
          =>
          /\ \A e \in Emails, loaded \in BOOLEAN, first \in BOOLEAN :
                StartInterview(e, Session(sid).l1_session_id, f, TRUE, loaded, first)
                  => /\ resp'.code = 403
                     /\ UNCHANGED <<active_sessions, heap>>
          /\ \A q \in QuestionIds :
                ProcessAnswerBegin(sid, f, q)
                  => /\ resp'.code = 403
                     /\ UNCHANGED <<active_sessions, heap, pa>>]_vars

\* C3: once a session record is no longer active, its results list and its
\* current question number never change again.
C3_EndedRecordFrozen ==
    [][\A o \in ObjIds :
          (heap[o].status = "completed" /\ SameObject(o))
          => /\ heap'[o].results = heap[o].results
             /\ heap'[o].current_question_num = heap[o].current_question_num]_vars

\* C4: a submitAnswer from the owning browser on a session whose elapsed
\* time has reached time_limit_minutes is answered 410 and takes the record
\* out of status active; no submitAnswer on such a record is accepted,
\* appends a result or moves current_question_num; and a record whose time
\* has run out stays so.
C4_ExpiredAnswerRejected ==
    [][\A sid \in DOMAIN active_sessions :
          LET obj == active_sessions[sid]
              session == heap[obj]
          IN  ElapsedMinutes(session, now) >= session.time_limit_minutes
              =>
              /\ ElapsedMinutes(heap'[obj], now') >= heap'[obj].time_limit_minutes
                   \/ ~SameObject(obj)
              /\ \A f \in Fingerprints, q \in QuestionIds :
                    ProcessAnswerBegin(sid, f, q)
                    => /\ resp'.code \in {403, 410}
                       /\ f = session.browser_fingerprint
                            => /\ resp'.code = 410
                               /\ heap'[obj].status # "active"
                       /\ pa'.pc = "idle"
                       /\ heap'[obj].results = session.results
                       /\ heap'[obj].current_question_num
                            = session.current_question_num]_vars

\* C4 witness: an answer has just been refused with 410 on a record that
\* held results and is now ended for time expiry.
C4_Witness ==
    /\ resp.op = "answer" /\ resp.code = 410
    /\ \E sid \in DOMAIN active_sessions :
          /\ Session(sid).status = "completed"
          /\ Session(sid).end_reason = "time_expired"
          /\ Session(sid).results # <<>>

\* C5: after a submitAnswer was answered 410, a getStatus from the owning
\* browser returns a status response with status expired and the count of
\* the results recorded before expiry.
C5_StatusAfterExpiry ==
    [][\A sid \in DOMAIN active_sessions :
          (/\ resp.op = "answer" /\ resp.code = 410
           /\ Session(sid).end_reason = "time_expired"
           /\ GetInterviewStatus(sid, Session(sid).browser_fingerprint))
          => /\ resp'.code = 200
             /\ resp'.status = "expired"
             /\ resp'.results_count = Len(Session(sid).results)]_vars

\* C6: the final results the sweep computes for a timed-out record count
\* every answer the record holds: nothing is appended after them.
C6_FinalResultsCoverEveryAnswer ==
    \A o \in ObjIds :
       (heap[o].end_reason = "time_expired" /\ heap[o].final_results # NoFinal)
       => heap[o].final_results = calculate_final_score(heap[o].results)

\* C7: a submitAnswer for a question the record already holds a result
\* for appends no second result.
C7_DuplicateAnswerNotAppended ==
    [][\A next \in BOOLEAN :
          (/\ pa.pc = "eval"
           /\ pa.question_id \in Range(heap[pa.obj].results)
           /\ ProcessAnswerFinish(next))
          => resp'.results_count = Len(heap[pa.obj].results)]_vars

\* a session id whose record a teardown has removed from the store
TornDown(sid) == reported[sid] # NoRemaining /\ sid \notin DOMAIN active_sessions

\* C8: an endSession for a session that a teardown has already removed
\* raises no error and changes neither store, registry nor artifacts.
C8_SecondTeardownNoError ==
    [][\A sid \in SessionIds, f \in Fingerprints :
          (TornDown(sid) /\ EndInterview(sid, f))
          => /\ resp'.code = 200
             /\ UNCHANGED <<active_sessions, l1_link_locks, l1_files,
                            security_files>>]_vars

\* C9: the step that ends a link-scoped session (takes its record from
\* active to completed) removes its link lock and its question file.
C9_EndingReleasesLockAndFile ==
    [][\A sid \in DOMAIN active_sessions :
          LET obj == active_sessions[sid]
              link == heap[obj].l1_session_id
          IN  (/\ link # NoLink
               /\ heap[obj].status = "active"
               /\ heap'[obj].status = "completed")
              => /\ link \notin DOMAIN l1_link_locks'
                 /\ link \notin l1_files']_vars

\* C10: a startSession that repeats, with nothing in between, the request
\* just answered with a fresh start is, unless question generation fails
\* (500), again answered started with the same session id and the full 30
\* minutes, and the store holds one record for it.
C10_RepeatedStartIsFresh ==
    (resp.op = "start" /\ resp.again /\ resp.code # 500)
    => /\ resp.code = 200
       /\ resp.status = "started"
       /\ resp.sid = resp.prev_sid
       /\ resp.remaining = INTERVIEW_TIME_LIMIT_MINUTES
       /\ resp.sid \in DOMAIN active_sessions
       /\ Session(resp.sid).session_id = resp.sid
       /\ Len(SelectSeq(session_keys, LAMBDA k : k = resp.sid)) = 1

\* C10 witness: the second of two identical start requests was answered.
C10_Witness == resp.op = "start" /\ resp.again /\ resp.code = 200

\* a startSession request for the session sid from its own browser: the
\* record is active, holds an accepted answer and a next question was served
ResumeCase(sid, email, link, fp) ==
    /\ sid \in DOMAIN active_sessions
    /\ Session(sid).status = "active"
    /\ Session(sid).results # <<>>
    /\ Session(sid).has_question
    /\ fp = Session(sid).browser_fingerprint
    /\ IF Session(sid).l1_session_id # NoLink
         THEN link = Session(sid).l1_session_id
         ELSE link = NoLink /\ email = Session(sid).email

C12_OtherBrowserChangesNothing ==
    [][\A sid \in DOMAIN active_sessions, f \in Fingerprints :
          (/\ f # Session(sid).browser_fingerprint
           /\ \/ \E q \in QuestionIds : ProcessAnswerBegin(sid, f, q)
              \/ GetInterviewStatus(sid, f)
              \/ EndInterview(sid, f))
          => /\ resp'.code = 403
             /\ UNCHANGED <<heap, active_sessions, session_keys,
                            l1_link_locks, l1_files, security_files,
                            pa>>]_vars

\* C12 witness: a request from another browser was refused on a record
\* whose time budget is used up.
C12_Witness ==
    /\ resp.op \in {"answer", "status", "end"} /\ resp.code = 403
    /\ \E sid \in DOMAIN active_sessions :
          check_interview_timer(Session(sid), now)

\* C13: the identity map never loses or changes an entry, a step adds at
\* most one, and a startSession for a mapped user identifier resolves to
\* the id the map holds: the record a fresh start stores carries that id.
C13_PersistentIdStable ==
    [][/\ \A u \in DOMAIN persistent_sessions :
             /\ u \in DOMAIN persistent_sessions'
             /\ persistent_sessions'[u] = persistent_sessions[u]
       /\ Cardinality(DOMAIN persistent_sessions')
             <= Cardinality(DOMAIN persistent_sessions) + 1
       /\ \A e \in Emails, link \in Links \cup {NoLink}, fp \in Fingerprints,
             loaded \in BOOLEAN, first \in BOOLEAN :
             LET uid == create_user_identifier(e, fp, link)
             IN  (/\ uid \in DOMAIN persistent_sessions
                  /\ FreshStart'
                  /\ StartInterview(e, link, fp, TRUE, loaded, first))
                 => /\ resp'.sid = persistent_sessions[uid]
                    /\ heap'[active_sessions'[resp'.sid]].session_id
                         = persistent_sessions[uid]
      ]_vars

\* C13 witness: a start request for a user identifier that was mapped
\* before was answered with the mapped id.
C13_Witness ==
    /\ resp.op = "start" /\ resp.again /\ resp.code = 200
    /\ resp.sid = persistent_sessions[
           create_user_identifier(resp.request[1], resp.request[3],
                                  resp.request[2])]

\* C14: a startSession whose write of the newly created identity mapping
\* fails is answered with an error and stores no session record.
C14_WriteFailureIsSurfaced ==
    [][\A e \in Emails, link \in Links \cup {NoLink}, fp \in Fingerprints,
          loaded \in BOOLEAN, first \in BOOLEAN :
          (/\ create_user_identifier(e, fp, link) \notin DOMAIN persistent_sessions
           /\ StartInterview(e, link, fp, FALSE, loaded, first))
          => /\ resp'.code >= 400
             /\ UNCHANGED <<active_sessions, heap>>]_vars

\* C15: a startSession for a user identifier that was handed a session id
\* before, in this run of the process or in one before a restart, resolves
\* to that id: the record a fresh start stores carries it.
C15_RestartKeepsIssuedId ==
    [][\A e \in Emails, link \in Links \cup {NoLink}, fp \in Fingerprints,
          save_ok \in BOOLEAN, loaded \in BOOLEAN, first \in BOOLEAN :
          LET uid == create_user_identifier(e, fp, link)
          IN  (/\ uid \in DOMAIN issued
               /\ FreshStart'
               /\ StartInterview(e, link, fp, save_ok, loaded, first))
              => resp'.sid = issued[uid]]_vars

\* C16 (amended): while the record of a torn-down session id is out of the
\* store, submitAnswer, getStatus and endSession with that id are answered
\* 404 and change nothing; the id comes back into the store only by a
\* fresh start that stores a new record under it.
C16_TornDownIdNotFound ==
    [][\A sid \in SessionIds :
          TornDown(sid)
          => /\ \A f \in Fingerprints :
                   (\/ \E q \in QuestionIds : ProcessAnswerBegin(sid, f, q)
                    \/ GetInterviewStatus(sid, f)
                    \/ EndInterview(sid, f))
                   => /\ resp'.code = 404
                      /\ UNCHANGED <<heap, active_sessions, session_keys,
                                     l1_link_locks, l1_files, security_files,
                                     persistent_sessions, pa, reported>>
             /\ sid \in DOMAIN active_sessions'
                   => FreshStart' /\ resp'.sid = sid]_vars

\* C16 witness: a request with a torn-down session id was answered 404.
C16_Witness ==
    /\ resp.op \in {"answer", "status", "end"} /\ resp.code = 404
    /\ \E sid \in SessionIds : TornDown(sid)

\* C16 as stated: a torn-down session id never has a record in the store
\* again.
C16_TornDownIdStaysTerminal ==
    [][\A sid \in SessionIds : TornDown(sid) => TornDown(sid)']_vars

\* C17: an endSession that succeeds leaves no store entry for the session
\* id and, for a link-scoped session, no lock entry for its link.
C17_EndSessionClearsStoreAndLock ==
    [][\A sid \in DOMAIN active_sessions, f \in Fingerprints :
          (EndInterview(sid, f) /\ resp'.code = 200)
          => /\ sid \notin DOMAIN active_sessions'
             /\ sid \notin Range(session_keys')
             /\ Session(sid).l1_session_id # NoLink
                   => Session(sid).l1_session_id \notin DOMAIN l1_link_locks'
      ]_vars

\* C17 witness: endSession has succeeded for the session of a link.
C17_Witness ==
    /\ resp.op = "end" /\ resp.code = 200
    /\ \E link \in Links, e \in Emails :
          /\ create_user_identifier(e, "", link) \in DOMAIN persistent_sessions
          /\ persistent_sessions[create_user_identifier(e, "", link)] = resp.sid
          /\ link \notin DOMAIN l1_link_locks

\* C18 (amended): the status of a session record never goes back from
\* completed to active (a record that is no longer active can only be
\* replaced by the new record of a fresh start).
C18_RecordStatusNeverReverses ==
    [][\A o \in ObjIds :
          (heap[o].status = "completed" /\ SameObject(o))
          => heap'[o].status = "completed"]_vars

\* C18 witness: a record that was ended for time expiry by one request has
\* been looked at by a later one.
C18_Witness ==
    /\ resp.op = "status" /\ resp.code = 410
    /\ \E sid \in DOMAIN active_sessions :
          /\ Session(sid).status = "completed"
          /\ Session(sid).final_results # NoFinal

\* C18 as stated: the status found under a session id never goes back
\* from completed to active.
C18_SessionIdStatusNeverReverses ==
    [][\A sid \in DOMAIN active_sessions :
          (Session(sid).status = "completed" /\ sid \in DOMAIN active_sessions')
          => heap'[active_sessions'[sid]].status = "completed"]_vars

\* C19: a record ended because its time budget ran out has status expired.
C19_TimedOutIsExpired ==
    \A o \in ObjIds :
       heap[o].end_reason = "time_expired" => heap[o].status = "expired"

\* the link has an active session record
LinkSessionActive(link) ==
    \E sid \in DOMAIN active_sessions :
       /\ Session(sid).l1_session_id = link
       /\ Session(sid).status = "active"

\* C20: an access to a link that has its question file binds the caller's
\* fingerprint when the link is unbound, succeeds and changes nothing when
\* it is bound to the caller, is answered 403 and changes nothing when it
\* is bound to another fingerprint; and while the link's session is active
\* a binding is neither dropped nor changed.
C20_LockBindsOneFingerprint ==
    [][\A link \in Links :
          /\ \A fp \in Fingerprints :
                (link \in l1_files /\ GetL1InterviewSession(link, fp))
                => IF link \notin DOMAIN l1_link_locks
                     THEN /\ resp'.code = 200
                          /\ l1_link_locks' = Put(l1_link_locks, link, fp)
                   ELSE IF l1_link_locks[link] = fp
                     THEN resp'.code = 200 /\ UNCHANGED l1_link_locks
                   ELSE resp'.code = 403 /\ UNCHANGED l1_link_locks
          /\ (/\ link \in DOMAIN l1_link_locks
              /\ LinkSessionActive(link)
              /\ LinkSessionActive(link)')
             => /\ link \in DOMAIN l1_link_locks'
                /\ l1_link_locks'[link] = l1_link_locks[link]]_vars

\* C21: a step that removes the lock entry of a link leaves no session
\* record of that link in the store.
C21_LockReleasedOnlyWithSession ==
    [][\A link \in DOMAIN l1_link_locks :
          link \notin DOMAIN l1_link_locks'
          => \A sid \in DOMAIN active_sessions' :
                heap'[active_sessions'[sid]].l1_session_id # link]_vars

\* C22: a start for a link whose lock is bound to another fingerprint than
\* the caller's is answered 403 and neither resumes nor creates a record.
C22_LockedLinkStartRejected ==
    [][\A email \in Emails, link \in Links, fp \in Fingerprints,
          loaded \in BOOLEAN, first \in BOOLEAN :
          (/\ link \in DOMAIN l1_link_locks
           /\ l1_link_locks[link] # fp
           /\ StartInterview(email, link, fp, TRUE, loaded, first))
          => /\ resp'.code = 403
             /\ resp'.status \notin {"resumed", "started"}
             /\ active_sessions' = active_sessions
             /\ heap' = heap]_vars

\* C23: every record of the store that was ended because its time budget
\* was used up carries computed final results.
C23_TimedOutHasFinalResults ==
    \A sid \in DOMAIN active_sessions :
        Session(sid).end_reason = "time_expired"
        => Session(sid).final_results # NoFinal

\* The cleanup thread is a daemon loop (sleep, pass, sleep, ...) that is
\* started once and never joins nor returns: each step of a pass that can
\* be taken is eventually taken.
SpecFair ==
    /\ Spec
    /\ WF_vars(SweepScan)
    /\ WF_vars(SweepAutoEnd)
    /\ WF_vars(SweepMaxAgeScan)
    /\ WF_vars(SweepMaxAgePop)

\* the store holds an active record under sid whose time budget is used up
TimedOutActive(sid) ==
    /\ sid \in DOMAIN active_sessions
    /\ Session(sid).status = "active"
    /\ check_interview_timer(Session(sid), now)

\* the timed-out record under sid is done with: ended with final results
\* computed, or torn down, or replaced by a record that still has time
ForceCompleted(sid) ==
    \/ sid \notin DOMAIN active_sessions
    \/ ~check_interview_timer(Session(sid), now)
    \/ /\ Session(sid).status # "active"
       /\ Session(sid).final_results # NoFinal

\* C24: with the cleanup thread running, every active record whose time
\* budget is used up eventually is out of active with final results
\* computed.
C24_TimedOutEventuallyForceCompleted ==
    \A sid \in SessionIds : TimedOutActive(sid) ~> ForceCompleted(sid)

\* ------------------------------------------ the cleanup thread, two records
MaxSweepSessions == 2

\* auto_end_expired_interviews meets an error on one collected record.
\* Only the write of the results file and the removal of the record's
\* files sit in a try of their own: an error there is logged and the loop
\* goes on.  An error of os.makedirs for the results directory is caught
\* by cleanup_expired_sessions alone, which logs it and goes back to sleep:
\* the pass is over, the record is marked and scored but keeps its files.
SweepAutoEndError(at) ==
    /\ sweeper.pc = "ending"
    /\ sweeper.expired # <<>>
    /\ LET obj == Head(sweeper.expired)
           session == heap[obj]
           link == session.l1_session_id
           ended == [MarkTimeExpired(session) EXCEPT
                       !.final_results = calculate_final_score(session.results)]
           caught == at \in {"write", "remove"}
       IN  /\ sweeper' = IF caught THEN [sweeper EXCEPT !.expired = Tail(@)]
                         ELSE SweeperAsleep
           /\ heap' = Collect([heap EXCEPT ![obj] = ended],
                              active_sessions, pa, sweeper')
           /\ l1_files' = IF at = "write" THEN l1_files \ {link} ELSE l1_files
           /\ l1_link_locks' = IF caught THEN Del(l1_link_locks, link)
                               ELSE l1_link_locks
           /\ security_files' = IF at = "write" THEN security_files \ {link}
                                ELSE security_files
    /\ resp' = NoResp
    /\ UNCHANGED <<now, ticks, persistent_sessions, persistent_file,
                   next_uuid, active_sessions, session_keys, pa, reported,
                   issued, probe, prescreen>>

\* The cleanup thread at work on a store of up to MaxSweepSessions records,
\* each started with its first question and none being answered, with the
\* errors a pass can meet.
NextSweep ==
    \/ Tick
    \/ TickDay
    \/ \E email \in Emails, link \in Links \cup {NoLink}, fp \in Fingerprints :
          /\ WithinBounds(email, link, fp, MaxSweepSessions)
          /\ StartInterview(email, link, fp, TRUE, TRUE, TRUE)
    \/ \E link \in Links, fp \in Fingerprints : GetL1InterviewSession(link, fp)
    \/ SweepScan
    \/ SweepAutoEnd
    \/ \E at \in {"makedirs", "write", "remove"} :
          SweepAutoEndError(at)
    \/ SweepMaxAgeScan
    \/ SweepMaxAgePop

SpecSweep == Init /\ [][NextSweep]_vars

\* C25: an error met while the cleanup thread processes one due record
\* leaves the other due records of the pass to be processed in that pass.
C25_SweepErrorSkipsOneRecord ==
    [][\A at \in {"makedirs", "write", "remove"} :
          (Len(sweeper.expired) > 1 /\ SweepAutoEndError(at))
          => /\ sweeper'.pc = "ending"
             /\ sweeper'.expired = Tail(sweeper.expired)]_vars

\* the record the store holds under sid was created more than
\* SESSION_EXPIRY_HOURS before t
OlderThanMaxAge(sid, t) == t - Session(sid).created_at > MaxAgeMinutes

C27_IdentityKeyedByLinkOrFingerprint ==
    /\ [](\A o1, o2 \in ObjIds :
            (/\ heap[o1].status # "free"
             /\ heap[o2].status # "free"
             /\ heap[o1].email = heap[o2].email)
            => /\ (/\ heap[o1].l1_session_id # NoLink
                   /\ heap[o1].l1_session_id = heap[o2].l1_session_id)
                  => heap[o1].session_id = heap[o2].session_id
               /\ (/\ heap[o1].l1_session_id = NoLink
                   /\ heap[o2].l1_session_id = NoLink
                   /\ heap[o1].browser_fingerprint
                         # heap[o2].browser_fingerprint)
                  => heap[o1].session_id # heap[o2].session_id)
    /\ [][\A email \in Emails, link \in Links \cup {NoLink},
            fp \in Fingerprints, first \in BOOLEAN :
            (/\ resp'.op = "start"
             /\ resp'.code = 200
             /\ StartInterview(email, link, fp, TRUE, TRUE, first))
            => \A fp2 \in Fingerprints :
                  LET uid2 == create_user_identifier(email, fp2, link)
                  IN  uid2 \in DOMAIN persistent_sessions'
                      => IF link # NoLink
                           THEN persistent_sessions'[uid2] = resp'.sid
                           ELSE fp2 # fp
                                => persistent_sessions'[uid2] # resp'.sid]_vars

\* a record of the link started from F1 is still in the cleanup thread's
\* hands when a start from F2 has put its record under the same id
C27_Witness ==
    /\ resp.op = "start" /\ resp.code = 200
    /\ resp.sid \in DOMAIN active_sessions
    /\ Session(resp.sid).browser_fingerprint = "F2"
    /\ Session(resp.sid).l1_session_id \in Links
    /\ \E o \in ObjIds :
          /\ heap[o].browser_fingerprint = "F1"
          /\ heap[o].l1_session_id = Session(resp.sid).l1_session_id
          /\ heap[o].email = Session(resp.sid).email
          /\ heap[o].session_id = resp.sid

\* ------------------------------------------------------ violation logging
MaxViolations == 1

\* variant: a logged violation restarts the interview timer
LogOnRecord_RestartsTimer(session) ==
    [session EXCEPT !.violations = @ + 1, !.interview_timer_started = now]

\* what log_violation does to the record of the session: one more entry
\* in its "violations" list (the model keeps the length of the list)
LogOnRecord(session) == [session EXCEPT !.violations = @ + 1]

\* log_violation: the event is appended to the session's violations file
\* and, when the store holds a record under the id, to that record; there
\* is no browser check.  An error of the file write is answered 500 before
\* the record is looked at.
LogViolation(sid, written) ==
    /\ pa.pc = "idle"
    /\ IF ~written THEN
          /\ resp' = Failure("violation", 500)
          /\ UNCHANGED heap
       ELSE IF sid \in DOMAIN active_sessions THEN
          /\ Session(sid).violations < MaxViolations
          /\ heap' = [heap EXCEPT ![active_sessions[sid]] = LogOnRecord(@)]
          /\ resp' = Response("violation", 200, 0, "success", NoRemaining, -1)
       ELSE
          /\ resp' = Response("violation", 200, 0, "success", NoRemaining, -1)
          /\ UNCHANGED heap
    /\ UNCHANGED <<now, ticks, persistent_sessions, persistent_file,
                   next_uuid, active_sessions, session_keys, l1_link_locks,
                   l1_files, security_files, pa, sweeper, reported,
                   issued, probe, prescreen>>

\* The operations on a session record, the clock and the cleanup thread
\* together with the violation log of the proctoring front end; the link
\* page, which touches no record, is left out.
NextLog ==
    \/ Tick
    \/ TickDay
    \/ \E email \in Emails, link \in Links \cup {NoLink}, fp \in Fingerprints,
          first \in BOOLEAN :
          /\ WithinBounds(email, link, fp, MaxSessions)
          /\ StartInterview(email, link, fp, TRUE, TRUE, first)
    \/ \E sid \in RequestIds, fp \in Fingerprints, q \in QuestionIds :
          ProcessAnswerBegin(sid, fp, q)
    \/ \E next \in BOOLEAN : ProcessAnswerFinish(next)
    \/ \E sid \in RequestIds, fp \in Fingerprints : EndInterview(sid, fp)
    \/ \E sid \in RequestIds, fp \in Fingerprints : GetInterviewStatus(sid, fp)
    \/ \E sid \in RequestIds, written \in BOOLEAN : LogViolation(sid, written)
    \/ SweepScan
    \/ SweepAutoEnd
    \/ SweepMaxAgeScan
    \/ SweepMaxAgePop

SpecLog == Init /\ [][NextLog]_vars

\* C28: no step changes interview_timer_started or time_limit_minutes of a
\* record that exists before and after it.
C28_TimerFieldsSetOnce ==
    [][\A o \in ObjIds :
          SameObject(o)
          => /\ heap'[o].interview_timer_started
                  = heap[o].interview_timer_started
             /\ heap'[o].time_limit_minutes = heap[o].time_limit_minutes]_vars

\* a record that was answered, logged a violation and was resumed after
\* the clock moved is then ended by the cleanup thread
C28_Witness ==
    /\ \E sid \in DOMAIN active_sessions :
          /\ Session(sid).violations > 0
          /\ Session(sid).results # <<>>
          /\ Session(sid).end_reason = "time_expired"
          /\ Session(sid).final_results # NoFinal
          /\ Session(sid).interview_timer_started < now
          /\ reported[sid] < INTERVIEW_TIME_LIMIT_MINUTES
          /\ reported[sid] # NoRemaining

\* ------------------------------------------- the pure functions on their own
\* The timer functions read datetime.now() to the microsecond.  Here they
\* are given instants in thousandths of a minute, ten times finer than the
\* hundredth get_remaining_time_minutes rounds to; the limit of the record
\* is put in the same unit.
Minutes(m) == m * 1000

MaxProbeSlack == 12

\* variant: the remaining time is rounded up to the next hundredth
round_Up(x) == {((x + 9) \div 10) * 10}

\* round(remaining, 2) on thousandths: the nearest hundredth; half a
\* hundredth goes either way, as the binary float falls
round(x) ==
    LET down == (x \div 10) * 10
    IN  IF x - down < 5 THEN {down}
        ELSE IF x - down > 5 THEN {down + 10}
        ELSE {down, down + 10}

ProbeLimits == {1, INTERVIEW_TIME_LIMIT_MINUTES}

ProbeStarts == {0, 7}

\* times elapsed since the timer's start: the first instants, and those
\* around the limit
ProbeElapsed(limit) ==
    (0..MaxProbeSlack)
    \cup {Minutes(limit) - k : k \in 0..MaxProbeSlack}
    \cup {Minutes(limit) + k : k \in 0..MaxProbeSlack}

TimerProbes ==
    {[fn |-> "timer", done |-> FALSE,
      session |-> [interview_timer_started |-> start,
                   time_limit_minutes |-> Minutes(limit)],
      at |-> start + e, expired |-> FALSE, remaining |-> 0] :
        <<start, limit, e>> \in
           {t \in ProbeStarts \X ProbeLimits \X (0..(Minutes(INTERVIEW_TIME_LIMIT_MINUTES) + MaxProbeSlack)) :
               t[3] \in ProbeElapsed(t[2])}}

\* check_interview_timer and get_remaining_time_minutes applied to a record
\* at one instant
ApplyTimer ==
    /\ probe.fn = "timer"
    /\ ~probe.done
    /\ \E r \in round(get_remaining_time_minutes(probe.session, probe.at)) :
          probe' = [probe EXCEPT
                      !.done = TRUE,
                      !.expired = check_interview_timer(probe.session, probe.at),
                      !.remaining = r]
    /\ UNCHANGED <<now, ticks, persistent_sessions, persistent_file,
                   next_uuid, heap, active_sessions, session_keys,
                   l1_link_locks, l1_files, security_files, pa, sweeper,
                   resp, reported, issued, prescreen>>

\* An HTTP request as generate_browser_fingerprint reads it: which of the
\* product tokens the user-agent header contains (none for a missing or
\* empty header), the addresses listed in x-forwarded-for (none for a
\* missing or empty header), x-real-ip, the peer address of the connection
\* and, of the headers it does not read, accept-language.
NoHeader == "absent"

Addresses == {"10.0.0.1", "10.0.0.2"}

Requests ==
    [user_agent : SUBSET {"Chrome", "Edg", "Firefox", "Safari"},
     x_forwarded_for : {<<>>} \cup {<<a>> : a \in Addresses}
                          \cup {<<a, b>> : a \in Addresses, b \in Addresses},
     x_real_ip : Addresses \cup {NoHeader},
     client_host : Addresses \cup {NoHeader},
     accept_language : {"en", "de"}]

\* the if/elif chain over the user-agent string
browser_info(user_agent) ==
    IF "Chrome" \in user_agent /\ "Edg" \notin user_agent THEN "Chrome"
    ELSE IF "Firefox" \in user_agent THEN "Firefox"
    ELSE IF "Safari" \in user_agent /\ "Chrome" \notin user_agent THEN "Safari"
    ELSE IF "Edg" \in user_agent THEN "Edge"
    ELSE "unknown"

\* the first address of x-forwarded-for, else x-real-ip, else the peer
\* address, else "unknown"
client_ip(request) ==
    IF request.x_forwarded_for # <<>> THEN Head(request.x_forwarded_for)
    ELSE IF request.x_real_ip # NoHeader THEN request.x_real_ip
    ELSE IF request.client_host # NoHeader THEN request.client_host
    ELSE "unknown"

\* hashlib.sha256(data).hexdigest()[:12], kept symbolic: equal data give
\* equal digests, and nothing is said of different data
sha256_hexdigest_12(data) == <<"sha256", data>>

\* variant: the accept-language header goes into the hashed data
generate_browser_fingerprint_WithLanguage(request) ==
    sha256_hexdigest_12(<<browser_info(request.user_agent), client_ip(request),
                          request.accept_language>>)

generate_browser_fingerprint(request) ==
    sha256_hexdigest_12(<<browser_info(request.user_agent), client_ip(request)>>)

FingerprintProbes ==
    {[fn |-> "fingerprint", done |-> FALSE, request |-> r,
      fingerprint |-> <<>>] : r \in Requests}

\* generate_browser_fingerprint applied to one request
ApplyFingerprint ==
    /\ probe.fn = "fingerprint"
    /\ ~probe.done
    /\ probe' = [probe EXCEPT
                   !.done = TRUE,
                   !.fingerprint = generate_browser_fingerprint(probe.request)]
    /\ UNCHANGED <<now, ticks, persistent_sessions, persistent_file,
                   next_uuid, heap, active_sessions, session_keys,
                   l1_link_locks, l1_files, security_files, pa, sweeper,
                   resp, reported, issued, prescreen>>

InitPure ==
    /\ InitState
    /\ probe \in TimerProbes \cup FingerprintProbes
    /\ prescreen = NoPrescreen

NextPure == ApplyTimer \/ ApplyFingerprint

SpecPure == InitPure /\ [][NextPure]_vars

\* the record, instant and results of a finished timer probe
TimerElapsed == probe.at - probe.session.interview_timer_started

TimerExact ==
    Max(0, probe.session.time_limit_minutes - TimerElapsed)

\* C29: for every timer start, limit and instant not before the start,
\* check_interview_timer is true exactly when the time elapsed has reached
\* the limit, and get_remaining_time_minutes returns max(0, limit -
\* elapsed) rounded to a hundredth of a minute: within half a hundredth of
\* it, between 0 and the limit, and 0 for an expired record.
C29_TimerFunctions ==
    (probe.fn = "timer" /\ probe.done)
    => /\ probe.expired <=> TimerElapsed >= probe.session.time_limit_minutes
       /\ probe.remaining - TimerExact \in -5..5
       /\ probe.remaining % 10 = 0
       /\ probe.remaining >= 0
       /\ probe.remaining <= probe.session.time_limit_minutes
       /\ probe.expired => probe.remaining = 0

\* a record a few thousandths of a minute short of its limit: not expired,
\* and the remaining time is reported as 0
C29_Witness ==
    /\ probe.fn = "timer" /\ probe.done
    /\ ~probe.expired
    /\ TimerExact > 0
    /\ probe.remaining = 0

\* C29 as stated: get_remaining_time_minutes returns exactly max(0, limit
\* - elapsed).
C29_RemainingIsExact ==
    (probe.fn = "timer" /\ probe.done)
    => /\ probe.expired <=> TimerElapsed >= probe.session.time_limit_minutes
       /\ probe.remaining = TimerExact

\* C30: the fingerprint of a request is that of every request with the same
\* browser family and the same resolved client address, whatever the other
\* headers, and there is a fingerprint for every request.
C30_FingerprintOfFamilyAndAddress ==
    /\ (probe.fn = "fingerprint" /\ ~probe.done) => ENABLED ApplyFingerprint
    /\ (probe.fn = "fingerprint" /\ probe.done)
       => /\ probe.fingerprint # <<>>
          /\ \A r \in Requests :
                (/\ browser_info(r.user_agent)
                      = browser_info(probe.request.user_agent)
                 /\ client_ip(r) = client_ip(probe.request))
                => generate_browser_fingerprint(r) = probe.fingerprint

\* the fingerprint of a request without user-agent and without any client
\* address
C30_Witness ==
    /\ probe.fn = "fingerprint" /\ probe.done
    /\ probe.request.user_agent = {}
    /\ probe.request.x_forwarded_for = <<>>
    /\ probe.request.x_real_ip = NoHeader
    /\ probe.request.client_host = NoHeader
    /\ probe.fingerprint = sha256_hexdigest_12(<<"unknown", "unknown">>)

\* C31: a request on a session from a browser other than the one stored
\* on its record (an answer, an end, a status poll, a violation log)
\* leaves the record in the store as it was.
C31_OtherBrowserNeverWrites ==
    [][\A sid \in DOMAIN active_sessions, fp \in Fingerprints :
          (/\ fp # Session(sid).browser_fingerprint
           /\ \/ \E q \in QuestionIds : ProcessAnswerBegin(sid, fp, q)
              \/ EndInterview(sid, fp)
              \/ GetInterviewStatus(sid, fp)
              \/ \E written \in BOOLEAN : LogViolation(sid, written))
          => /\ sid \in DOMAIN active_sessions'
             /\ heap'[active_sessions'[sid]] = Session(sid)]_vars

\* ------------------------------------------------------ two candidates
\* The request handlers with two candidate emails and up to
\* MaxSweepSessions identities, in the time between two passes of the
\* cleanup thread.
TwoEmails == {"a@x.com", "b@x.com"}

NextTwo ==
    \/ \E email \in TwoEmails, link \in Links \cup {NoLink},
          fp \in Fingerprints, first \in BOOLEAN :
          /\ WithinBounds(email, link, fp, MaxSweepSessions)
          /\ StartInterview(email, link, fp, TRUE, TRUE, first)
    \/ \E link \in Links, fp \in Fingerprints : GetL1InterviewSession(link, fp)
    \/ \E sid \in RequestIds, fp \in Fingerprints, q \in QuestionIds :
          ProcessAnswerBegin(sid, fp, q)
    \/ \E next \in BOOLEAN : ProcessAnswerFinish(next)
    \/ \E sid \in RequestIds, fp \in Fingerprints : EndInterview(sid, fp)
    \/ \E sid \in RequestIds, fp \in Fingerprints : GetInterviewStatus(sid, fp)

SpecTwo == Init /\ [][NextTwo]_vars

\* C32: a start answered "resumed" returns the session id the identity
\* map holds for the request's own identifier, and the record under that
\* id carries the email of the request.
C32_ResumedIsOwnSession ==
    [][\A email \in TwoEmails, link \in Links \cup {NoLink},
          fp \in Fingerprints, first \in BOOLEAN :
          (/\ resp'.op = "start"
           /\ resp'.status = "resumed"
           /\ StartInterview(email, link, fp, TRUE, TRUE, first))
          => /\ resp'.sid = persistent_sessions'[
                                create_user_identifier(email, fp, link)]
             /\ heap'[active_sessions'[resp'.sid]].email = email]_vars

\* C33: the store never holds two active records of the same interview
\* link.
C33_OneActiveRecordPerLink ==
    \A s1, s2 \in DOMAIN active_sessions :
        (/\ Session(s1).l1_session_id # NoLink
         /\ Session(s1).l1_session_id = Session(s2).l1_session_id
         /\ Session(s1).status = "active"
         /\ Session(s2).status = "active")
        => s1 = s2

\* C34: the results of every record of the store are numbered 1, 2, 3, ...
\* in the order they were appended, and an active record that has a current
\* question is at question number (results recorded) + 1.
C34_QuestionNumbering ==
    \A sid \in DOMAIN active_sessions :
        /\ \A k \in DOMAIN Session(sid).results : Session(sid).results[k] = k
        /\ (Session(sid).status = "active" /\ Session(sid).has_question)
           => Session(sid).current_question_num
                 = Len(Session(sid).results) + 1

\* an active record whose first answer is recorded and whose next question
\* is out
C34_Witness ==
    \E sid \in DOMAIN active_sessions :
        /\ Session(sid).status = "active"
        /\ Session(sid).has_question
        /\ Len(Session(sid).results) = 1
        /\ resp.op = "answer" /\ resp.status = "question_processed"

McqIds == 1..MaxMcq

\* the interview server takes no part in the requests of this API
InterviewIdle ==
    UNCHANGED <<now, ticks, persistent_sessions, persistent_file,
                next_uuid, heap, active_sessions, session_keys,
                l1_link_locks, l1_files, security_files, pa, sweeper,
                resp, reported, issued, probe>>

PrescreenResp(op, sid, fp, code) ==
    [op |-> op, sid |-> sid, fingerprint |-> fp, code |-> code]

\* is_link_locked: <<is_locked, fingerprint_file_exists>>
is_link_locked(session_id, current_fingerprint) ==
    IF prescreen.link_security[session_id] # NoFingerprintFile
    THEN <<prescreen.link_security[session_id] # current_fingerprint, TRUE>>
    ELSE <<FALSE, FALSE>>

\* generate_questions: a question set under a fresh uuid4, in memory and in
\* its backup file; a generator that returns no question is a 500
GenerateQuestions(generated) ==
    /\ prescreen.uuid < MaxMcq
    /\ LET session_id == prescreen.uuid + 1 IN
       IF ~generated
       THEN prescreen' = [prescreen EXCEPT
                !.resp = PrescreenResp("generate", 0, "", 500)]
       ELSE prescreen' = [prescreen EXCEPT
                !.uuid = session_id,
                !.active_sessions = @ \cup {session_id},
                !.session_files = @ \cup {session_id},
                !.resp = PrescreenResp("generate", session_id, "", 200)]
    /\ InterviewIdle

\* schedule_assessment: the uuid4 is drawn first; the assessment file is
\* written inside a try of its own, so a failed write still answers 200
ScheduleAssessment(generated, saved) ==
    /\ prescreen.uuid < MaxMcq
    /\ LET session_id == prescreen.uuid + 1 IN
       IF ~generated
       THEN prescreen' = [prescreen EXCEPT
                !.uuid = session_id,
                !.resp = PrescreenResp("schedule", 0, "", 500)]
       ELSE prescreen' = [prescreen EXCEPT
                !.uuid = session_id,
                !.scheduled_assessments[session_id] =
                    IF saved THEN "valid" ELSE "none",
                !.resp = PrescreenResp("schedule", session_id, "", 200)]
    /\ InterviewIdle

\* the clock passes the expires_at of an assessment file
AssessmentExpires(session_id) ==
    /\ prescreen.scheduled_assessments[session_id] = "valid"
    /\ prescreen' = [prescreen EXCEPT
            !.scheduled_assessments[session_id] = "expired"]
    /\ InterviewIdle

\* get_scheduled_assessment: HTTPException passes through unchanged
GetScheduledAssessment(session_id, fp) ==
    /\ LET locked == is_link_locked(session_id, fp)
           file   == prescreen.scheduled_assessments[session_id] IN
       IF file = "none"
       THEN prescreen' = [prescreen EXCEPT
                !.resp = PrescreenResp("assessment", session_id, fp, 404)]
       ELSE IF file = "expired"
       THEN prescreen' = [prescreen EXCEPT
                !.scheduled_assessments[session_id] = "none",
                !.resp = PrescreenResp("assessment", session_id, fp, 410)]
       ELSE IF locked[1] /\ locked[2]
       THEN prescreen' = [prescreen EXCEPT
                !.resp = PrescreenResp("assessment", session_id, fp, 403)]
       ELSE prescreen' = [prescreen EXCEPT
                !.link_security[session_id] =
                    IF locked[2] THEN @ ELSE fp,
                !.resp = PrescreenResp("assessment", session_id, fp, 200)]
    /\ InterviewIdle

\* submit_answers wraps its whole body in `except Exception`, which also
\* catches the HTTPException the body raises itself: whatever status the
\* body chose, the client is answered 500
submit_answers_raise(status_code) == 500

\* submit_answers
SubmitAnswers(session_id, fp, db_saved) ==
    /\ LET locked == is_link_locked(session_id, fp)
           in_memory == session_id \in prescreen.active_sessions
           assessment_data ==
               /\ ~in_memory
               /\ prescreen.scheduled_assessments[session_id] # "none"
           backup == session_id \in prescreen.session_files
       IN
       IF locked[1] /\ locked[2]
       THEN prescreen' = [prescreen EXCEPT
                !.resp = PrescreenResp("submit", session_id, fp,
                                       submit_answers_raise(403))]
       ELSE IF ~in_memory /\ ~assessment_data /\ ~backup
       THEN prescreen' = [prescreen EXCEPT
                !.resp = PrescreenResp("submit", session_id, fp,
                                       submit_answers_raise(404))]
       ELSE prescreen' = [prescreen EXCEPT
                !.active_sessions = @ \ {session_id},
                !.session_files = @ \ {session_id},
                !.scheduled_assessments[session_id] =
                    IF assessment_data THEN "none" ELSE @,
                !.link_security[session_id] = NoFingerprintFile,
                !.interview_tests =
                    IF db_saved THEN @ \cup {session_id} ELSE @,
                !.resp = PrescreenResp("submit", session_id, fp, 200)]
    /\ InterviewIdle

NextScreen ==
    \/ \E generated \in BOOLEAN : GenerateQuestions(generated)
    \/ \E generated, saved \in BOOLEAN : ScheduleAssessment(generated, saved)
    \/ \E session_id \in McqIds : AssessmentExpires(session_id)
    \/ \E session_id \in McqIds, fp \in Fingerprints :
          GetScheduledAssessment(session_id, fp)
    \/ \E session_id \in McqIds, fp \in Fingerprints, db_saved \in BOOLEAN :
          SubmitAnswers(session_id, fp, db_saved)

SpecScreen == Init /\ [][NextScreen]_vars

\* what a request can change: everything of the API but its last response
PrescreenState(p) == [p EXCEPT !.resp = NoPrescreen.resp]

\* C36: a submit-answers request for an assessment whose lock file names
\* another fingerprint is answered 403 and leaves the question sets in
\* memory, the assessment files, the backups and the lock files as they
\* were.
C36_OtherBrowserSubmitRejected ==
    [][\A session_id \in McqIds, fp \in Fingerprints :
          (/\ prescreen.link_security[session_id]
                 \notin {NoFingerprintFile, fp}
           /\ \E db_saved \in BOOLEAN : SubmitAnswers(session_id, fp, db_saved))
          => /\ prescreen'.resp.code = 403
             /\ PrescreenState(prescreen') = PrescreenState(prescreen)]_vars

====
